---- MODULE Spec2Model ----
(***************************************************************************)
(* A model of pyget's Downloader (src/pyget.py): the HEAD probe with its   *)
(* three attempts, the planning of the byte ranges, the chunk tasks with   *)
(* their five attempts each, the shared buffer they write into, and the    *)
(* gather that joins them.  One step of the model is one run of a          *)
(* coroutine between two awaits, as the event loop schedules it.           *)
(***************************************************************************)
EXTENDS Integers, Sequences, FiniteSets, TLC

\* ------------------------------------------------------------------ bounds
\* Largest Downloader(concurrency) of the concurrent model.
MaxConcurrency == 2
\* The planner alone is explored for every size in 0..MaxPlanSize and every
\* concurrency in 1..MaxPlanConcurrency.
MaxPlanSize == 10240
MaxPlanConcurrency == 4

\* ------------------------------------------------------- program constants
\* range(3) of get_remote_file_size
ProbeAttempts == 3
\* range(5) of download_chunk
ChunkAttempts == 5
\* 1 << 10: below this chunk size the file is fetched as a single chunk
MinChunk == 1024

\* --------------------------------------------------------------- the server
\* The URL download_file is called with, and the URLs a HEAD response can carry
\* as response.url (the URL of the final request, after redirects).
InputUrl == "http://origin/file"
RedirectUrl == "http://cdn/file"
Urls == {InputUrl, RedirectUrl}

\* The Content-Length values the server reports: the empty resource, a resource
\* smaller than any concurrency above 1, and the sizes around the points where
\* one chunk and MaxConcurrency chunks of MinChunk bytes become possible.
FileSizes ==
    {0, 1, MinChunk - 1, MinChunk}
        \cup {MinChunk * MaxConcurrency + d : d \in {-1, 0, 1}}

\* Byte p of the resource.  Never 0, so that a byte of the resource differs from
\* a byte of the zero-filled buffer.
ResourceByte(p) == (p % 255) + 1

\* The largest resource of the model, as a sequence (byte p is element p + 1),
\* and the resource of n bytes, which is its first n bytes.
LargestResource ==
    [j \in 1..(MinChunk * MaxConcurrency + 1) |-> ResourceByte(j - 1)]
Resource(n) == SubSeq(LargestResource, 1, n)

\* For every byte of the resource another byte, never 0 either: what a server
\* sends that answers with a body of the right length and other content.
OtherBytes == [j \in 1..Len(LargestResource) |-> (LargestResource[j] % 255) + 1]

\* The sizes of FileSizes that make a single chunk whatever the concurrency.
SyncFileSizes == {n \in FileSizes : n <= MinChunk}

\* The states self.loop can be in when sync_download_file is called.
LoopStates == {"open", "closed", "running"}

\* What a HEAD attempt can come to.
\*   "ok"         a response with a readable Content-Length (any status)
\*   "no_length"  a response without Content-Length: headers[...] raises KeyError
\*   "bad_length" a Content-Length that int() rejects: ValueError
\*   "timeout"    asyncio.TimeoutError
\*   "client"     aiohttp.ClientError
HeadOutcomes == {"ok", "no_length", "bad_length", "timeout", "client"}

\* response.status of the HEAD responses the server sends: a success and an
\* error status (>= 400).
HeadStatuses == {200, 404}

\* What a GET attempt can come to.
\*   "exact"   the body is bytes start..end of the resource
\*   "wrong"   a body of the requested length with other bytes
\*   "short"   a body one byte shorter than the range
\*   "long"    a body one byte longer than the range
\*   "timeout" asyncio.TimeoutError
\*   "client"  aiohttp.ClientError
GetOutcomes == {"exact", "wrong", "short", "long", "timeout", "client"}

\* response.status of the answer to a GET, 0 when no response arrived: the
\* range, an error page that has the length of the range, a truncated range,
\* and the whole resource with a trailing byte.
Status(outcome) ==
    CASE outcome = "exact" -> 206
      [] outcome = "wrong" -> 404
      [] outcome = "short" -> 206
      [] outcome = "long"  -> 200
      [] OTHER -> 0

\* Whether the session turns a response of this status into a ClientError:
\* ClientSession is built without raise_for_status, and download_chunk does
\* not call response.raise_for_status().
\* (variant: raise_for_status is on)
StatusRaisesMut(status) == status >= 400
StatusRaises(status) == FALSE

\* The bytes start..end of the resource (empty when end < start).
RangeBody(start, end) == SubSeq(LargestResource, start + 1, end + 1)

\* The body response.read() returns for a GET of bytes=start-end.
ResponseBody(outcome, start, end) ==
    LET exact == RangeBody(start, end)
    IN  CASE outcome = "exact" -> exact
          [] outcome = "wrong" -> SubSeq(OtherBytes, start + 1, end + 1)
          [] outcome = "short" -> SubSeq(exact, 1, Len(exact) - 1)
          [] outcome = "long"  -> Append(exact, 0)
          [] OTHER -> <<>>

\* ------------------------------------------------------------ the planner
Min(a, b) == IF a < b THEN a ELSE b

\* chunk_size = file_size // self.concurrency
RawChunkSize(size, conc) == size \div conc

\* if chunk_size < 1 << 10
\* (variant: the test applied to the file size instead of the chunk size)
SingleChunkMut(size, conc) == size < MinChunk
SingleChunk(size, conc) == RawChunkSize(size, conc) < MinChunk

\* the local `concurrency` of download_file
EffectiveConcurrency(size, conc) == IF SingleChunk(size, conc) THEN 1 ELSE conc

\* the local `chunk_size` of download_file after the test
EffectiveChunkSize(size, conc) ==
    IF SingleChunk(size, conc) THEN size ELSE RawChunkSize(size, conc)

\* start := i * chunk_size
\* (variant: every start but the first one byte early)
ChunkStartMut(i, chunk_size) == IF i = 0 THEN 0 ELSE i * chunk_size - 1
ChunkStart(i, chunk_size) == i * chunk_size

\* start + chunk_size - 1 if i != concurrency - 1 else file_size - 1
\* (variant: the last chunk not extended to the end of the file)
ChunkEndMut(i, chunk_size, conc, size) == ChunkStart(i, chunk_size) + chunk_size - 1
ChunkEnd(i, chunk_size, conc, size) ==
    IF i # conc - 1 THEN ChunkStart(i, chunk_size) + chunk_size - 1 ELSE size - 1

\* The (start, end) pairs of the tasks list, in the order of range(concurrency):
\* element k is the range of i = k - 1.
Ranges(size, conc) ==
    LET n  == EffectiveConcurrency(size, conc)
        cs == EffectiveChunkSize(size, conc)
    IN  [k \in 1..n |-> <<ChunkStart(k - 1, cs), ChunkEnd(k - 1, cs, n, size)>>]

\* ------------------------------------------------------------- the buffer
\* b"\0" * file_size
LargestZeros == [j \in 1..(MinChunk * MaxConcurrency + 1) |-> 0]
\* (variant: memory that was not zeroed)
ZerosStale(n) == [j \in 1..n |-> 1]
\* (variant: one byte too many)
ZerosMut(n) == Append(SubSeq(LargestZeros, 1, n), 0)
Zeros(n) == SubSeq(LargestZeros, 1, n)

\* The slice buffer_view[start : end + 1] of a buffer of n bytes, as Python
\* clamps it: <<lo, hi>>, the bytes lo..hi-1.
Slice(start, end, n) ==
    LET lo == Min(start, n)
        hi == Min(end + 1, n)
    IN  <<lo, IF hi < lo THEN lo ELSE hi>>

\* Whether buffer_view[start : end + 1] = body is accepted: a memoryview slice
\* takes only a value of its own length, and raises ValueError otherwise.
\* (variant: a shorter value is taken too)
SliceFitsMut(b, start, end, body) ==
    LET s == Slice(start, end, Len(b)) IN Len(body) <= s[2] - s[1]
SliceFits(b, start, end, body) ==
    LET s == Slice(start, end, Len(b)) IN Len(body) = s[2] - s[1]

\* The buffer after buffer_view[start : end + 1] = body.
\* (variant: the body written at the start of the buffer)
SliceAssignMut(b, start, end, body) ==
    body \o SubSeq(b, Len(body) + 1, Len(b))
SliceAssign(b, start, end, body) ==
    LET s == Slice(start, end, Len(b))
    IN  SubSeq(b, 1, s[1]) \o body \o SubSeq(b, s[2] + 1, Len(b))

\* ------------------------------------------------------------- exceptions
\* An exception: its kind and the chunk task it was raised in (0: the probe).
\*   "probe"  ValueError("Failed to HEAD ... after multiple retries")
\*   "fetch"  ValueError("Failed to download ... after multiple retries")
\*   "length" ValueError of int(response.headers["Content-Length"])
\*   "slice"  ValueError of the memoryview slice assignment
NoExc == [kind |-> "none", task |-> 0]
Exc(kind, k) == [kind |-> kind, task |-> k]

\* for i in range(3): whether an attempt follows attempt i of the probe.
\* (variant: one attempt more)
ProbeHasNextMut(i) == i < ProbeAttempts
ProbeHasNext(i) == i + 1 < ProbeAttempts

\* for i in range(5): whether an attempt follows attempt i of a chunk.
\* (variant: one attempt more)
ChunkHasNextMut(i) == i < ChunkAttempts
ChunkHasNext(i) == i + 1 < ChunkAttempts

\* The exceptions the except clauses of get_remote_file_size catch and retry.
HeadCaught == {"no_length", "timeout", "client"}
\* The exceptions the except clause of download_chunk catches and retries.
GetCaught == {"timeout", "client"}

\* ----------------------------------------------------------------- headers
\* str(n) of a Python int, in decimal.
Digits == <<"0", "1", "2", "3", "4", "5", "6", "7", "8", "9">>

RECURSIVE Str(_)
Str(n) ==
    IF n < 0 THEN "-" \o Str(-n)
    ELSE IF n < 10 THEN Digits[n + 1]
    ELSE Str(n \div 10) \o Digits[(n % 10) + 1]

\* A dict of headers is a function from header names to values; {} is <<>>.
\* headers = {"Retry-Count": str(i)} if i else {}
\* (variant: the header is sent on every attempt)
RetryHeadersMut(i) == "Retry-Count" :> Str(i)
RetryHeaders(i) == IF i # 0 THEN "Retry-Count" :> Str(i) ELSE <<>>

\* headers |= {"Range": f"bytes={start}-{end}"}
GetHeaders(i, start, end) ==
    ("Range" :> ("bytes=" \o Str(start) \o "-" \o Str(end))) @@ RetryHeaders(i)

\* -------------------------------------------------------------------- state
VARIABLES
    self_concurrency,  \* self.concurrency
    retries,           \* self.retries
    pc,                \* where download_file is: "idle", "probe", "gather",
                       \* "returned", "raised"
    url,               \* the local url of download_file
    file_size,         \* the local file_size (0 until the probe returns)
    chunk_size,        \* the local chunk_size
    concurrency,       \* the local concurrency
    probe_i,           \* i of get_remote_file_size
    probe_pc,          \* "off", "head" (awaiting the HEAD), "sleep", "done"
    buf,               \* the bytes of buf
    buf_pos,           \* the position of buf
    tasks,             \* the chunk tasks, in the order of the tasks list
    gather_exc,        \* the exception set on the future of asyncio.gather
    error,             \* the exception download_file raised
    \* what an observer of the download records
    head_count,        \* HEAD requests issued
    head_fails,        \* HEAD attempts that failed and were caught
    get_urls,          \* the URLs of the GET requests issued
    writes,            \* for each task the slice assignments it made, in
                       \* order: <<lo, hi>> for bytes lo..hi-1
    fail_order,        \* the chunk tasks that raised, in the order they did
    all_exact,         \* every GET response so far carried exactly its range
    report,            \* what download_file printed: [concurrency, kb, retries]
    head_sent,         \* the headers of each HEAD request sent, in order
    resp,              \* for each task the last GET response that arrived
    last_head,         \* the last HEAD answered: [outcome, status, url, size]
    \* the caller's side: sync_download_file and the event loop
    loop,              \* self.loop: [id, state], state "open", "closed" or
                       \* "running"; id counts the loops created
    session,           \* self._session: the id of the loop the cached session
                       \* was created on, 0 for None
    sync_pc,           \* where sync_download_file is: "none" (download_file
                       \* is awaited by a coroutine instead), "idle", "run1",
                       \* "run2" (in its first, second run_until_complete),
                       \* "returned", "raised"
    sync_exc,          \* the exception sync_download_file raised
    run_calls,         \* calls of run_until_complete made
    call,              \* loop state and session when sync_download_file was
                       \* called
    \* the planner on its own
    plan_pc,           \* "args", "planned"
    plan_args,         \* <<size, concurrency>>
    plan_out           \* [concurrency, chunk_size, ranges]

syncVars == <<loop, sync_pc, sync_exc, run_calls, call>>

vars ==
    <<self_concurrency, retries, pc, url, file_size, chunk_size, concurrency,
      probe_i, probe_pc, buf, buf_pos, tasks, gather_exc, error, head_count,
      head_fails, get_urls, writes, fail_order, all_exact, plan_pc, plan_args,
      plan_out, report, head_sent, resp, last_head,
      syncVars, session>>

downloadVars ==
    <<self_concurrency, retries, pc, url, file_size, chunk_size, concurrency,
      probe_i, probe_pc, buf, buf_pos, tasks, gather_exc, error, head_count,
      head_fails, get_urls, writes, fail_order, all_exact,
      report, head_sent, resp, last_head,
      syncVars, session>>

planVars == <<plan_pc, plan_args, plan_out>>

\* sync_download_file not called yet.
NoCall == [state |-> "none", session |-> 0]

\* No HEAD answered yet.
NoHead == [outcome |-> "none", status |-> 0, url |-> "", size |-> -1]

\* No response arrived yet.
NoResp == [outcome |-> "none", status |-> 0, len |-> -1]

\* The response the server sent to task t: its status and its body's length.
Response(outcome, t) ==
    [outcome |-> outcome, status |-> Status(outcome),
     len |-> Len(ResponseBody(outcome, t.start, t.end))]

\* Nothing printed yet.
NoReport == [concurrency |-> 0, kb |-> 0, retries |-> -1]

NoPlan == [concurrency |-> 0, chunk_size |-> 0, ranges |-> <<>>]

\* A Downloader after __init__, before download_file is called.
InitDownloader(conc) ==
    /\ self_concurrency = conc
    /\ retries = 0
    /\ pc = "idle"
    /\ url = InputUrl
    /\ file_size = 0
    /\ chunk_size = 0
    /\ concurrency = 0
    /\ probe_i = 0
    /\ probe_pc = "off"
    /\ buf = <<>>
    /\ buf_pos = 0
    /\ tasks = <<>>
    /\ gather_exc = NoExc
    /\ error = NoExc
    /\ head_count = 0
    /\ head_fails = 0
    /\ get_urls = {}
    /\ writes = <<>>
    /\ fail_order = <<>>
    /\ all_exact = TRUE
    /\ report = NoReport
    /\ head_sent = <<>>
    /\ resp = <<>>
    /\ last_head = NoHead

\* The caller's side: mode is "none" for a coroutine that awaits
\* download_file and "idle" for a caller of sync_download_file.
InitCaller(mode, state, sess) ==
    /\ loop = [id |-> 1, state |-> state]
    /\ session = sess
    /\ sync_pc = mode
    /\ sync_exc = NoExc
    /\ run_calls = 0
    /\ call = NoCall

Init ==
    /\ \E conc \in 1..MaxConcurrency : InitDownloader(conc)
    /\ InitCaller("none", "running", 0)
    /\ plan_pc = "args"
    /\ plan_args = <<0, 1>>
    /\ plan_out = NoPlan

\* --------------------------------------------------------- download_file
\* The url download_file hands to every download_chunk: the local url, which
\* the probe's result has replaced (url, file_size = await ...).
\* (variant: the URL download_file was called with)
TaskUrlMut(input_url, response_url) == input_url
TaskUrl(input_url, response_url) == response_url

\* The coroutine download_chunk(url, start, end, buffer_view), not yet started.
\* pc: "created", "get" (awaiting the GET of attempt i), "sleep" (in the sleep
\* after attempt i failed), "returned", "raised".  gets and fails count the GET
\* requests the task issued and the attempts of it that failed and were caught;
\* sent holds the headers of each GET request the task sent, in order.
NewTask(u, range) ==
    [url |-> u, start |-> range[1], end |-> range[2], pc |-> "created",
     i |-> 0, gets |-> 0, fails |-> 0, exc |-> NoExc, sent |-> <<>>]

\* Whether the event loop is running the coroutines of the download: always
\* for a caller that awaits download_file, and inside run_until_complete for
\* sync_download_file.
LoopRuns == sync_pc \in {"none", "run1", "run2"}

\* self.session when self._session is sess and self.loop is lp: the cached
\* session, or a new ClientSession created on self.loop.
Session(sess, lp) == IF sess = 0 THEN lp.id ELSE sess

\* download_file starts on loop lp with self._session = sess: self.retries = 0,
\* and get_remote_file_size runs to its first await, the HEAD of attempt 0,
\* which takes self.session.
StartDownload(lp, sess) ==
    /\ pc = "idle"
    /\ pc' = "probe"
    /\ retries' = 0
    /\ probe_i' = 0
    /\ probe_pc' = "head"
    /\ head_count' = head_count + 1
    /\ head_sent' = <<RetryHeaders(0)>>
    /\ session' = Session(sess, lp)
    /\ UNCHANGED <<self_concurrency, url, file_size, chunk_size, concurrency,
                   buf, buf_pos, tasks, gather_exc, error, head_fails,
                   get_urls, writes, fail_order, all_exact, planVars, report,
                   resp, last_head>>

\* A coroutine running on self.loop awaits download_file.
DownloadFile ==
    /\ sync_pc = "none"
    /\ StartDownload(loop, session)
    /\ UNCHANGED syncVars

\* The HEAD answers with a Content-Length: get_remote_file_size returns
\* (response.url, size); download_file plans the chunks, allocates the buffer,
\* builds the tasks and awaits asyncio.gather.
HeadReturns(response_url, size, status) ==
    /\ LoopRuns
    /\ pc = "probe" /\ probe_pc = "head"
    /\ last_head' = [outcome |-> "ok", status |-> status,
                     url |-> response_url, size |-> size]
    /\ probe_pc' = "done"
    /\ url' = response_url
    /\ file_size' = size
    /\ chunk_size' = EffectiveChunkSize(size, self_concurrency)
    /\ concurrency' = EffectiveConcurrency(size, self_concurrency)
    /\ buf' = Zeros(size)
    /\ buf_pos' = 0
    /\ tasks' = [k \in 1..Len(Ranges(size, self_concurrency)) |->
                    NewTask(TaskUrl(url, response_url),
                            Ranges(size, self_concurrency)[k])]
    /\ writes' = [k \in 1..Len(Ranges(size, self_concurrency)) |-> <<>>]
    /\ resp' = [k \in 1..Len(Ranges(size, self_concurrency)) |-> NoResp]
    /\ pc' = "gather"
    /\ UNCHANGED <<self_concurrency, retries, probe_i, gather_exc, error,
                   head_count, head_fails, get_urls, fail_order, all_exact,
                   planVars, report, head_sent, syncVars, session>>

\* The HEAD attempt fails with an exception an except clause catches: the
\* attempt is printed and the coroutine sleeps.
HeadFails(outcome, status) ==
    /\ LoopRuns
    /\ pc = "probe" /\ probe_pc = "head"
    /\ outcome \in HeadCaught
    /\ status = 0 <=> outcome \in {"timeout", "client"}
    /\ last_head' = [NoHead EXCEPT !.outcome = outcome, !.status = status]
    /\ probe_pc' = "sleep"
    /\ head_fails' = head_fails + 1
    /\ UNCHANGED <<self_concurrency, retries, pc, url, file_size, chunk_size,
                   concurrency, probe_i, buf, buf_pos, tasks, gather_exc,
                   error, head_count, get_urls, writes, fail_order, all_exact,
                   planVars, report, head_sent, resp, syncVars, session>>

\* The HEAD answers with a Content-Length int() rejects: the ValueError is
\* caught by no except clause and leaves download_file.
HeadRaises(status) ==
    /\ LoopRuns
    /\ pc = "probe" /\ probe_pc = "head"
    /\ last_head' = [NoHead EXCEPT !.outcome = "bad_length",
                                   !.status = status]
    /\ probe_pc' = "done"
    /\ pc' = "raised"
    /\ error' = Exc("length", 0)
    /\ UNCHANGED <<self_concurrency, retries, url, file_size, chunk_size,
                   concurrency, probe_i, buf, buf_pos, tasks, gather_exc,
                   head_count, head_fails, get_urls, writes, fail_order,
                   all_exact, planVars, report, head_sent, resp,
                   syncVars, session>>

\* The sleep of the probe ends: the next attempt's HEAD is issued, or, after
\* the last attempt, ValueError("Failed to HEAD ...") leaves download_file.
ProbeWakes ==
    /\ LoopRuns
    /\ pc = "probe" /\ probe_pc = "sleep"
    /\ IF ProbeHasNext(probe_i)
       THEN /\ probe_i' = probe_i + 1
            /\ probe_pc' = "head"
            /\ head_count' = head_count + 1
            /\ head_sent' = Append(head_sent, RetryHeaders(probe_i + 1))
            /\ UNCHANGED <<pc, error>>
       ELSE /\ probe_pc' = "done"
            /\ pc' = "raised"
            /\ error' = Exc("probe", 0)
            /\ UNCHANGED <<probe_i, head_count, head_sent>>
    /\ UNCHANGED <<self_concurrency, retries, url, file_size, chunk_size,
                   concurrency, buf, buf_pos, tasks, gather_exc, head_fails,
                   get_urls, writes, fail_order, all_exact, planVars, report,
                   resp, last_head, syncVars, session>>

\* -------------------------------------------------------- download_chunk
\* asyncio.gather without return_exceptions: the exception of the first child
\* that raises is set on the future download_file awaits; later ones are not.
\* (variant: the exception of the last child that raised)
GatherExceptionMut(current, new) == new
GatherException(current, new) == IF current = NoExc THEN new ELSE current

\* Whether the future of asyncio.gather has a result: every child returned.
\* (variant: the future never gets a result)
GatherDoneMut(ts) == FALSE
GatherDone(ts) == \A k \in 1..Len(ts) : ts[k].pc = "returned"

\* Task k issues the GET of attempt i, with Range: bytes=start-end.
IssueGet(k, i) ==
    /\ tasks' = [tasks EXCEPT ![k].pc = "get", ![k].i = i,
                              ![k].gets = tasks[k].gets + 1,
                              ![k].sent = Append(tasks[k].sent,
                                  GetHeaders(i, tasks[k].start, tasks[k].end))]
    /\ get_urls' = get_urls \cup {tasks[k].url}

\* An exception leaves task k, and asyncio.gather sees it.
RaiseFrom(k, kind) ==
    /\ tasks' = [tasks EXCEPT ![k].pc = "raised", ![k].exc = Exc(kind, k)]
    /\ fail_order' = Append(fail_order, k)
    /\ gather_exc' = GatherException(gather_exc, Exc(kind, k))

\* The event loop runs task k for the first time: attempt 0.
ChunkStarts(k) ==
    /\ LoopRuns
    /\ k \in 1..Len(tasks)
    /\ tasks[k].pc = "created"
    /\ IssueGet(k, 0)
    /\ UNCHANGED <<self_concurrency, retries, pc, url, file_size, chunk_size,
                   concurrency, probe_i, probe_pc, buf, buf_pos, gather_exc,
                   error, head_count, head_fails, writes, fail_order,
                   all_exact, planVars, report, head_sent, resp, last_head,
                   syncVars, session>>

\* The GET of task k fails with an exception the except clause catches: the
\* error is printed and the task sleeps.
GetFails(k, outcome) ==
    /\ LoopRuns
    /\ k \in 1..Len(tasks)
    /\ tasks[k].pc = "get"
    /\ outcome \in GetCaught \/ StatusRaises(Status(outcome))
    /\ tasks' = [tasks EXCEPT ![k].pc = "sleep",
                              ![k].fails = tasks[k].fails + 1]
    /\ resp' = IF Status(outcome) # 0
               THEN [resp EXCEPT ![k] = Response(outcome, tasks[k])]
               ELSE resp
    /\ UNCHANGED <<self_concurrency, retries, pc, url, file_size, chunk_size,
                   concurrency, probe_i, probe_pc, buf, buf_pos, gather_exc,
                   error, head_count, head_fails, get_urls, writes,
                   fail_order, all_exact, planVars, report, head_sent,
                   last_head, syncVars, session>>

\* The GET of task k answers and its body is read:
\* buffer_view[start : end + 1] = await response.read(), then return; a body
\* of another length than the slice raises ValueError, which nothing catches.
GetAnswers(k, outcome) ==
    /\ LoopRuns
    /\ k \in 1..Len(tasks)
    /\ tasks[k].pc = "get"
    /\ outcome \in GetOutcomes \ GetCaught
    /\ ~StatusRaises(Status(outcome))
    /\ outcome \in {"wrong", "short"} => tasks[k].end >= tasks[k].start
    /\ LET t    == tasks[k]
           body == ResponseBody(outcome, t.start, t.end)
           s    == Slice(t.start, t.end, Len(buf))
       IN  IF SliceFits(buf, t.start, t.end, body)
           THEN /\ buf' = SliceAssign(buf, t.start, t.end, body)
                /\ writes' = [writes EXCEPT ![k] = Append(@, s)]
                /\ tasks' = [tasks EXCEPT ![k].pc = "returned"]
                /\ UNCHANGED <<fail_order, gather_exc>>
           ELSE /\ RaiseFrom(k, "slice")
                /\ UNCHANGED <<buf, writes>>
    /\ resp' = [resp EXCEPT ![k] = Response(outcome, tasks[k])]
    /\ all_exact' = (all_exact /\ outcome = "exact")
    /\ UNCHANGED <<self_concurrency, retries, pc, url, file_size, chunk_size,
                   concurrency, probe_i, probe_pc, buf_pos, error, head_count,
                   head_fails, get_urls, planVars, report, head_sent,
                   last_head, syncVars, session>>

\* The sleep of task k ends: the next attempt's GET is issued, or, after the
\* last attempt, ValueError("Failed to download ...") leaves the task.
ChunkWakes(k) ==
    /\ LoopRuns
    /\ k \in 1..Len(tasks)
    /\ tasks[k].pc = "sleep"
    /\ IF ChunkHasNext(tasks[k].i)
       THEN /\ IssueGet(k, tasks[k].i + 1)
            /\ UNCHANGED <<fail_order, gather_exc>>
       ELSE /\ RaiseFrom(k, "fetch")
            /\ UNCHANGED get_urls
    /\ UNCHANGED <<self_concurrency, retries, pc, url, file_size, chunk_size,
                   concurrency, probe_i, probe_pc, buf, buf_pos, error,
                   head_count, head_fails, writes, all_exact, planVars, report,
                   head_sent, resp, last_head, syncVars, session>>

\* Every child returned: download_file resumes after the await, seeks to 0,
\* prints the report, resets self.retries and returns buf.
GatherReturns ==
    /\ LoopRuns
    /\ pc = "gather"
    /\ gather_exc = NoExc
    /\ GatherDone(tasks)
    /\ buf_pos' = 0
    /\ report' = [concurrency |-> concurrency, kb |-> chunk_size \div 1024,
                  retries |-> retries]
    /\ retries' = 0
    /\ pc' = "returned"
    /\ UNCHANGED <<self_concurrency, url, file_size, chunk_size, concurrency,
                   probe_i, probe_pc, buf, tasks, gather_exc, error,
                   head_count, head_fails, get_urls, writes, fail_order,
                   all_exact, planVars, head_sent, resp, last_head,
                   syncVars, session>>

\* A child raised: the await of asyncio.gather raises its exception in
\* download_file, which nothing catches.  The other children are not cancelled.
GatherRaises ==
    /\ LoopRuns
    /\ pc = "gather"
    /\ gather_exc # NoExc
    /\ pc' = "raised"
    /\ error' = gather_exc
    /\ UNCHANGED <<self_concurrency, retries, url, file_size, chunk_size,
                   concurrency, probe_i, probe_pc, buf, buf_pos, tasks,
                   gather_exc, head_count, head_fails, get_urls, writes,
                   fail_order, all_exact, planVars, report, head_sent, resp,
                   last_head, syncVars, session>>

\* ----------------------------------------------------- sync_download_file
\* RuntimeError(msg); e.args[0] is msg.
RuntimeError(msg) == [kind |-> "RuntimeError", task |-> 0, msg |-> msg]

\* What loop.run_until_complete raises before it runs anything, by the state
\* of the loop it is called on; NoExc when it goes on to run the coroutine.
RunCheck(state) ==
    CASE state = "closed"  -> RuntimeError("Event loop is closed")
      [] state = "running" -> RuntimeError("This event loop is already running")
      [] OTHER -> NoExc

\* except RuntimeError as e: if e.args[0] == "Event loop is closed"
LoopClosedError(e) ==
    e.kind = "RuntimeError" /\ e.msg = "Event loop is closed"

\* self.loop = asyncio.new_event_loop()
NewLoop(lp) == [id |-> lp.id + 1, state |-> "open"]

\* self._session = None
\* (variant: the cached session is kept)
SessionAfterRecoveryMut(sess) == sess
SessionAfterRecovery(sess) == 0

\* sync_download_file is called: run_until_complete either raises at once or
\* starts download_file; on "Event loop is closed" a new loop is made, the
\* session is dropped and run_until_complete is called again; any other
\* RuntimeError is raised again.
SyncDownloadFile ==
    /\ sync_pc = "idle"
    /\ call' = [state |-> loop.state, session |-> session]
    /\ LET e == RunCheck(loop.state)
       IN  IF e = NoExc
           THEN /\ StartDownload(loop, session)
                /\ sync_pc' = "run1"
                /\ run_calls' = 1
                /\ UNCHANGED <<loop, sync_exc>>
           ELSE IF LoopClosedError(e)
           THEN /\ loop' = NewLoop(loop)
                /\ StartDownload(NewLoop(loop), SessionAfterRecovery(session))
                /\ sync_pc' = "run2"
                /\ run_calls' = 2
                /\ UNCHANGED sync_exc
           ELSE /\ sync_pc' = "raised"
                /\ sync_exc' = e
                /\ run_calls' = 1
                /\ UNCHANGED <<loop, session, self_concurrency, retries, pc,
                               url, file_size, chunk_size, concurrency,
                               probe_i, probe_pc, buf, buf_pos, tasks,
                               gather_exc, error, head_count, head_fails,
                               get_urls, writes, fail_order, all_exact,
                               report, head_sent, resp, last_head, planVars>>

\* download_file returned: run_until_complete returns buf, and
\* sync_download_file returns it.
SyncReturns ==
    /\ sync_pc \in {"run1", "run2"}
    /\ pc = "returned"
    /\ sync_pc' = "returned"
    /\ UNCHANGED <<loop, sync_exc, run_calls, call, session, self_concurrency,
                   retries, pc, url, file_size, chunk_size, concurrency,
                   probe_i, probe_pc, buf, buf_pos, tasks, gather_exc, error,
                   head_count, head_fails, get_urls, writes, fail_order,
                   all_exact, report, head_sent, resp, last_head, planVars>>

\* download_file raised: run_until_complete raises its exception, a
\* ValueError, which except RuntimeError does not catch in the first run and
\* which nothing catches in the second.
SyncRaises ==
    /\ sync_pc \in {"run1", "run2"}
    /\ pc = "raised"
    /\ sync_pc' = "raised"
    /\ sync_exc' = error
    /\ UNCHANGED <<loop, run_calls, call, session, self_concurrency,
                   retries, pc, url, file_size, chunk_size, concurrency,
                   probe_i, probe_pc, buf, buf_pos, tasks, gather_exc, error,
                   head_count, head_fails, get_urls, writes, fail_order,
                   all_exact, report, head_sent, resp, last_head, planVars>>

\* ------------------------------------------------------------ the planner
\* The planning lines of download_file applied to plan_args alone.
Plan ==
    /\ plan_pc = "args"
    /\ plan_pc' = "planned"
    /\ plan_out' = [concurrency |-> EffectiveConcurrency(plan_args[1], plan_args[2]),
                    chunk_size  |-> EffectiveChunkSize(plan_args[1], plan_args[2]),
                    ranges      |-> Ranges(plan_args[1], plan_args[2])]
    /\ UNCHANGED <<plan_args, downloadVars>>

InitPlan ==
    /\ InitDownloader(1)
    /\ InitCaller("none", "running", 0)
    /\ plan_pc = "args"
    /\ plan_args \in (0..MaxPlanSize) \X (1..MaxPlanConcurrency)
    /\ plan_out = NoPlan

\* ------------------------------------------------------- specifications
Next ==
    \/ DownloadFile
    \/ \E u \in Urls, size \in FileSizes, st \in HeadStatuses :
          HeadReturns(u, size, st)
    \/ \E o \in HeadOutcomes, st \in HeadStatuses \cup {0} : HeadFails(o, st)
    \/ \E st \in HeadStatuses : HeadRaises(st)
    \/ ProbeWakes
    \/ \E k \in 1..MaxConcurrency : ChunkStarts(k)
    \/ \E k \in 1..MaxConcurrency, o \in GetOutcomes : GetFails(k, o)
    \/ \E k \in 1..MaxConcurrency, o \in GetOutcomes : GetAnswers(k, o)
    \/ \E k \in 1..MaxConcurrency : ChunkWakes(k)
    \/ GatherReturns
    \/ GatherRaises

Spec == Init /\ [][Next]_vars

\* The event loop keeps running: a request that is awaited completes or
\* raises, a sleep elapses, and a coroutine that can run is run.
FairSpec == Spec /\ WF_vars(Next)

NextPlan == Plan

\* sync_download_file on a Downloader whose loop is open, closed or running
\* and whose session is cached or not, for resources of a single chunk.
InitSync ==
    /\ \E conc \in 1..MaxConcurrency : InitDownloader(conc)
    /\ \E state \in LoopStates, sess \in {0, 1} :
           InitCaller("idle", state, sess)
    /\ plan_pc = "args"
    /\ plan_args = <<0, 1>>
    /\ plan_out = NoPlan

NextSync ==
    \/ SyncDownloadFile
    \/ SyncReturns
    \/ SyncRaises
    \/ \E u \in Urls, size \in SyncFileSizes, st \in HeadStatuses :
          HeadReturns(u, size, st)
    \/ \E o \in HeadOutcomes, st \in HeadStatuses \cup {0} : HeadFails(o, st)
    \/ \E st \in HeadStatuses : HeadRaises(st)
    \/ ProbeWakes
    \/ ChunkStarts(1)
    \/ \E o \in GetOutcomes : GetFails(1, o)
    \/ \E o \in GetOutcomes : GetAnswers(1, o)
    \/ ChunkWakes(1)
    \/ GatherReturns
    \/ GatherRaises

SpecSync == InitSync /\ [][NextSync]_vars

SpecPlan == InitPlan /\ [][NextPlan]_vars

\* ================================================================= claims
\* Whether download_file has planned its chunks (the probe returned).
Planned == pc \in {"gather", "returned"} \/ (pc = "raised" /\ error.task > 0)

\* C1: for every concurrency >= 1 and size >= 1024 * concurrency, the planned
\* ranges are exactly `concurrency` non-empty inclusive ranges in increasing
\* order of start; the first starts at 0, each next one starts at the previous
\* end + 1, and the last ends at size - 1.
C1_RangesPartition ==
    (plan_pc = "planned" /\ plan_args[1] >= MinChunk * plan_args[2]) =>
        LET size == plan_args[1]
            n    == plan_args[2]
            r    == plan_out.ranges
        IN  /\ Len(r) = n
            /\ plan_out.concurrency = n
            /\ r[1][1] = 0
            /\ \A k \in 1..n : r[k][1] <= r[k][2]
            /\ \A k \in 1..(n - 1) : r[k + 1][1] = r[k][2] + 1
            /\ r[n][2] = size - 1

\* C1 witness: 10000 bytes at concurrency 4 planned as the four ranges of
\* Scenario A.
C1_Witness ==
    /\ plan_pc = "planned"
    /\ plan_args = <<10000, 4>>
    /\ plan_out.ranges =
           <<(<<0, 2499>>), (<<2500, 4999>>), (<<5000, 7499>>), (<<7500, 9999>>)>>

\* C2: when every GET was answered with exactly the bytes of its range, the
\* buffer download_file returns equals the resource byte for byte, whatever
\* the concurrency and the order in which the tasks ran, retried and
\* completed.
C2_BufferEqualsResource ==
    (pc = "returned" /\ all_exact) => buf = Resource(file_size)

\* C2 witness: a download in two chunks with a remainder byte returned the
\* resource after the first chunk had been retried twice and the second once.
C2_Witness ==
    /\ pc = "returned"
    /\ all_exact
    /\ Len(tasks) = 2
    /\ file_size = 2 * MinChunk + 1
    /\ tasks[1].fails = 2
    /\ tasks[2].fails = 1
    /\ buf = Resource(file_size)

\* The slice assignments made so far: <<k, n>> is the n-th one of task k.
Written == {w \in (1..Len(writes)) \X (1..ChunkAttempts) : w[2] <= Len(writes[w[1]])}
Lo(w) == writes[w[1]][w[2]][1]
Hi(w) == writes[w[1]][w[2]][2]

\* C3: every slice assignment of a task covers exactly that task's own range,
\* no byte is written by two different tasks, and when download_file returns
\* every byte of [0, size) has been written exactly once.
C3_DisjointWrites ==
    /\ \A k \in 1..Len(writes) : Len(writes[k]) <= ChunkAttempts
    /\ \A w \in Written :
           /\ Lo(w) = tasks[w[1]].start
           /\ Hi(w) = tasks[w[1]].end + 1
    /\ \A v, w \in Written :
           v[1] # w[1] => (Hi(v) <= Lo(w) \/ Hi(w) <= Lo(v))
    /\ pc = "returned" =>
           \A p \in 0..(file_size - 1) :
               Cardinality({w \in Written : Lo(w) <= p /\ p < Hi(w)}) = 1

\* C3 witness: both tasks of a two-chunk download wrote, one of them after two
\* retried attempts, and download_file returned.
C3_Witness ==
    /\ pc = "returned"
    /\ Len(writes) = 2
    /\ Len(writes[1]) = 1 /\ Len(writes[2]) = 1
    /\ \E k \in 1..Len(tasks) : tasks[k].fails >= 2

\* C4: whenever size // concurrency < 1024, exactly one chunk (0, size - 1) is
\* planned with effective concurrency 1; for size 0 the chunk is (0, -1), an
\* empty response body is accepted without an exception, and the buffer
\* returned is empty.
C4_SingleChunk ==
    /\ (Planned /\ file_size \div self_concurrency < MinChunk) =>
           /\ Len(tasks) = 1
           /\ tasks[1].start = 0
           /\ tasks[1].end = file_size - 1
           /\ concurrency = 1
    /\ (Planned /\ file_size = 0) =>
           /\ Len(tasks) = 1
           /\ tasks[1].start = 0 /\ tasks[1].end = -1
           /\ all_exact => tasks[1].exc.kind # "slice"
           /\ pc = "returned" => buf = <<>>

\* C4 witness: a Downloader of concurrency above 1 returned the empty buffer
\* for a resource of size 0.
C4_Witness ==
    /\ pc = "returned"
    /\ self_concurrency > 1
    /\ file_size = 0
    /\ writes = <<(<<(<<0, 0>>)>>)>>
    /\ buf = <<>>

\* C5: the buffer download_file returns has exactly the probed size and is
\* positioned at 0.
C5_BufferLength ==
    pc = "returned" => (Len(buf) = file_size /\ buf_pos = 0)

\* C5 witness: download_file returned a buffer of 2 * 1024 + 1 bytes part of
\* which a task filled with bytes that are not the resource's.
C5_Witness ==
    /\ pc = "returned"
    /\ ~all_exact
    /\ Len(buf) = 2 * MinChunk + 1

\* C6: every GET of every chunk task, first or retried, goes to the URL the
\* successful HEAD returned, and none is issued before that.
C6_GetUsesProbeUrl ==
    /\ get_urls \subseteq {url}
    /\ ~Planned => get_urls = {}
    /\ \A k \in 1..Len(tasks) : tasks[k].url = url

\* C6 witness: the HEAD was redirected and a chunk task has issued a retried
\* GET.
C6_Witness ==
    /\ url = RedirectUrl
    /\ url # InputUrl
    /\ get_urls = {RedirectUrl}
    /\ \E k \in 1..Len(tasks) : tasks[k].gets >= 2

\* C7: the probe issues at most 3 HEAD requests, none after the first one that
\* succeeds; after 3 failed attempts it fails with the probe error, and
\* download_file then fails having issued no GET.
C7_ProbeBudget ==
    /\ head_count <= 3
    /\ head_count <= head_fails + 1
    /\ Planned => head_count = head_fails + 1
    /\ head_fails = 3 => (probe_pc = "sleep" \/ error = Exc("probe", 0))
    /\ error.kind = "probe" =>
           /\ pc = "raised"
           /\ head_count = 3 /\ head_fails = 3
           /\ tasks = <<>> /\ get_urls = {}
    /\ (pc = "raised" /\ error.task = 0) => get_urls = {}

\* C7 witness: download_file raised the probe error after three HEADs.
C7_Witness ==
    /\ pc = "raised"
    /\ error = Exc("probe", 0)
    /\ head_count = 3

\* C8: a chunk task issues at most 5 GETs, one more than its own failed
\* attempts whatever the other tasks do, none after the attempt that succeeds,
\* and after 5 failed attempts it fails with the chunk-fetch error.
C8_ChunkBudget ==
    \A k \in 1..Len(tasks) :
        /\ tasks[k].gets <= 5
        /\ tasks[k].gets <= tasks[k].fails + 1
        /\ tasks[k].pc = "returned" => tasks[k].gets = tasks[k].fails + 1
        /\ tasks[k].fails = 5 =>
               (tasks[k].pc = "sleep" \/ tasks[k].exc = Exc("fetch", k))
        /\ tasks[k].exc.kind = "fetch" =>
               (tasks[k].pc = "raised" /\ tasks[k].gets = 5 /\ tasks[k].fails = 5)

\* C8 witness: one task raised the chunk-fetch error after 5 GETs while the
\* other returned after a single retry.
C8_Witness ==
    /\ Len(tasks) = 2
    /\ tasks[1].exc = Exc("fetch", 1) /\ tasks[1].gets = 5
    /\ tasks[2].pc = "returned" /\ tasks[2].gets = 2

\* C9: once a chunk task has raised, download_file never returns a buffer,
\* and the exception it raises is that of the first task that raised.
C9_FirstFailure ==
    /\ fail_order # <<>> =>
           /\ pc \in {"gather", "raised"}
           /\ gather_exc = tasks[fail_order[1]].exc
    /\ (\E k \in 1..Len(tasks) : tasks[k].pc = "raised") => fail_order # <<>>
    /\ (pc = "raised" /\ error.task > 0) =>
           /\ fail_order # <<>>
           /\ error = tasks[fail_order[1]].exc
           /\ error.task = fail_order[1]

\* C9 witness: both tasks raised before download_file resumed, the second
\* task first, and download_file raised the second task's exception.
C9_Witness ==
    /\ pc = "raised"
    /\ fail_order = <<2, 1>>
    /\ error = tasks[2].exc

\* C10: download_file fails only when the probe has failed 3 attempts or some
\* chunk fetch has failed 5 attempts.
C10_OnlyBudgetExhaustion ==
    pc = "raised" =>
        \/ head_fails = ProbeAttempts
        \/ \E k \in 1..Len(tasks) : tasks[k].fails = ChunkAttempts

\* The attempts of the download that failed and were retried or gave up: those
\* of the probe and of tasks 1..n.
RECURSIVE FailedAttempts(_)
FailedAttempts(n) ==
    IF n = 0 THEN head_fails ELSE tasks[n].fails + FailedAttempts(n - 1)

\* C11: the retry count download_file reports when it returns is the number of
\* failed attempts of the download (at least 2 when a chunk failed twice before
\* it succeeded).
C11_ReportedRetries ==
    pc = "returned" => report.retries = FailedAttempts(Len(tasks))

\* A step that, when download_file has returned or raised, leaves the buffer
\* and the GETs issued as they are.
QuietAfterCompletion ==
    pc \in {"returned", "raised"} =>
        /\ buf' = buf
        /\ writes' = writes
        /\ \A k \in 1..Len(tasks) : tasks'[k].gets = tasks[k].gets

\* C12: once download_file has returned or raised, no chunk task of the
\* download issues a GET or writes to the buffer.
C12_WaitForAll == [][QuietAfterCompletion]_vars

\* Whether the headers h of a request sent after `earlier` failed attempts
\* carry no Retry-Count on the first attempt and afterwards
\* Retry-Count: <earlier>, a value from 1 to most.
RetryCountOk(h, earlier, most) ==
    IF earlier = 0
    THEN "Retry-Count" \notin DOMAIN h
    ELSE /\ "Retry-Count" \in DOMAIN h
         /\ h["Retry-Count"] = Str(earlier)
         /\ h["Retry-Count"] \in {Str(v) : v \in 1..most}

\* C13: the first HEAD and the first GET of a chunk carry no Retry-Count
\* header; every retried request carries Retry-Count equal to the number of
\* earlier failed attempts of the same operation, from 1 to at most 2 for the
\* probe and at most 4 for a chunk.
C13_RetryCountHeader ==
    /\ Len(head_sent) = head_count
    /\ \A j \in 1..Len(head_sent) : RetryCountOk(head_sent[j], j - 1, 2)
    /\ probe_pc = "head" =>
           RetryCountOk(head_sent[Len(head_sent)], head_fails, 2)
    /\ \A k \in 1..Len(tasks) :
           /\ Len(tasks[k].sent) = tasks[k].gets
           /\ \A j \in 1..Len(tasks[k].sent) :
                  RetryCountOk(tasks[k].sent[j], j - 1, 4)
           /\ tasks[k].pc = "get" =>
                  RetryCountOk(tasks[k].sent[Len(tasks[k].sent)],
                               tasks[k].fails, 4)

\* The probe was retried twice and a chunk four times.
C13_Witness ==
    /\ Len(head_sent) = ProbeAttempts
    /\ head_sent[3]["Retry-Count"] = "2"
    /\ \E k \in 1..Len(tasks) :
           /\ Len(tasks[k].sent) = ChunkAttempts
           /\ tasks[k].sent[5]["Retry-Count"] = "4"
           /\ "Retry-Count" \notin DOMAIN tasks[k].sent[1]

\* The number of bytes of the range task k was given.
RangeLen(k) == tasks[k].end - tasks[k].start + 1

\* Whether the bytes of the range of task k are the zeros of the allocation.
RangeUntouched(k) ==
    \A p \in (tasks[k].start + 1)..(tasks[k].end + 1) : buf[p] = 0

\* C14: a chunk task that returned has read a body of exactly
\* end - start + 1 bytes and has written exactly those bytes, once; a task
\* whose response body had another length has not returned, has written
\* nothing, and the buffer bytes of its range are as they were allocated.
C14_BodyLengthChecked ==
    \A k \in 1..Len(tasks) :
        /\ tasks[k].pc = "returned" =>
               /\ resp[k].len = RangeLen(k)
               /\ writes[k] = <<(<<tasks[k].start, tasks[k].end + 1>>)>>
        /\ resp[k].len \notin {-1, RangeLen(k)} =>
               /\ tasks[k].pc = "raised"
               /\ writes[k] = <<>>
               /\ RangeUntouched(k)

\* The first task got a body one byte short and raised; the second task of
\* the same download got a full body and returned.
C14_Witness ==
    /\ Len(tasks) = 2
    /\ resp[1].len = RangeLen(1) - 1
    /\ tasks[1].pc = "raised"
    /\ resp[2].len = RangeLen(2)
    /\ tasks[2].pc = "returned"
    /\ RangeLen(2) >= MinChunk

\* C15: a HEAD response whose Content-Length is missing or is not a number
\* counts as a failed attempt that is followed by the delay and a retry: the
\* probe is still running, or it ended after ProbeAttempts HEAD requests
\* with its own exception.
C15_BadLengthRetried ==
    last_head.outcome \in {"no_length", "bad_length"} =>
        /\ head_fails >= 1
        /\ pc \in {"probe", "raised"}
        /\ pc = "raised" =>
               (error = Exc("probe", 0) /\ head_count = ProbeAttempts)

\* C16: a HEAD response with a readable Content-Length makes the probe return
\* that response's URL and length on that attempt, whatever its status
\* (>= 400 included), and a HEAD response makes the attempt fail only when it
\* has no Content-Length header (the other failures are a timeout and a
\* client error, which come without a response).
C16_StatusNotFailure ==
    /\ last_head.outcome = "ok" =>
           /\ Planned
           /\ url = last_head.url
           /\ file_size = last_head.size
           /\ head_count = head_fails + 1
    /\ (last_head.outcome \notin {"none", "ok"}) =>
           last_head.outcome \in {"no_length", "timeout", "client"}

\* A HEAD answered 404 with a readable Content-Length, after one failed
\* attempt, and the download went on to fetch the chunks.
C16_Witness ==
    /\ last_head.outcome = "ok"
    /\ last_head.status >= 400
    /\ head_fails = 1
    /\ pc = "returned"
    /\ file_size >= MinChunk

\* Whether some chunk task has issued a GET.
SomeGet == \E k \in 1..Len(tasks) : tasks[k].gets > 0

\* The order of one download_file call, as far as a state shows it.
OrderedState ==
    /\ ~Planned => (tasks = <<>> /\ get_urls = {} /\ buf = <<>>)
    /\ Planned =>
           /\ last_head.outcome = "ok"
           /\ head_count = head_fails + 1
           /\ file_size = last_head.size
           /\ Len(tasks) = Len(Ranges(file_size, self_concurrency))
           /\ \A k \in 1..Len(tasks) :
                  <<tasks[k].start, tasks[k].end>> =
                      Ranges(file_size, self_concurrency)[k]
    /\ (Planned /\ ~SomeGet) =>
           /\ Len(buf) = file_size
           /\ \A p \in 1..Len(buf) : buf[p] = 0

\* The order of one download_file call, as far as a step shows it: once the
\* chunks are planned no HEAD is issued or answered, and the size, the plan
\* and the ranges of the tasks stay as they are.
OrderedStep ==
    Planned =>
        /\ Planned'
        /\ head_count' = head_count
        /\ head_sent' = head_sent
        /\ last_head' = last_head
        /\ <<file_size, chunk_size, concurrency>>' =
               <<file_size, chunk_size, concurrency>>
        /\ Len(tasks') = Len(tasks)
        /\ \A k \in 1..Len(tasks) :
               /\ tasks'[k].start = tasks[k].start
               /\ tasks'[k].end = tasks[k].end
               /\ tasks'[k].url = tasks[k].url

\* C17: within one download_file call the probe succeeds exactly once before
\* the chunks are planned; the buffer is zero-filled at the probed size before
\* any chunk task starts; no GET is issued before the probe has succeeded; no
\* HEAD is issued after the first GET; and the ranges are not changed after
\* the tasks start.
C17_Ordering == []OrderedState /\ [][OrderedStep]_vars

\* After two failed probe attempts and a successful one, both chunk tasks
\* were retried and the download returned.
C17_Witness ==
    /\ pc = "returned"
    /\ head_count = ProbeAttempts
    /\ Len(tasks) = 2
    /\ \A k \in 1..Len(tasks) : tasks[k].gets >= 2

\* C18: a GET response that arrived with a body of exactly end - start + 1
\* bytes makes the task return on that attempt, with that body written to
\* its range of the buffer, whatever the status of the response.
C18_StatusIgnored ==
    \A k \in 1..Len(tasks) :
        resp[k].len = RangeLen(k) =>
            /\ tasks[k].pc = "returned"
            /\ tasks[k].gets = tasks[k].fails + 1
            /\ writes[k] = <<(<<tasks[k].start, tasks[k].end + 1>>)>>
            /\ SubSeq(buf, tasks[k].start + 1, tasks[k].end + 1) =
                   ResponseBody(resp[k].outcome, tasks[k].start, tasks[k].end)

\* A chunk task returned on its first attempt after a 404 response with a
\* body of the length of its range, next to one that got a 206.
C18_Witness ==
    /\ Len(tasks) = 2
    /\ resp[1].status = 404
    /\ resp[2].status = 206
    /\ \A k \in 1..2 : tasks[k].pc = "returned" /\ tasks[k].gets = 1
    /\ pc = "returned"

\* Whether a download_file call is under way, and whether it has ended.
Running == pc \in {"probe", "gather"}
Terminated == pc \in {"returned", "raised"}

\* C19: every download_file call that has started eventually returns or
\* raises, and at no time have more than 3 HEAD requests or more than 5 GET
\* requests of one chunk been issued.
C19_Terminates ==
    /\ [](/\ head_count <= ProbeAttempts
          /\ \A k \in 1..Len(tasks) : tasks[k].gets <= ChunkAttempts)
    /\ Running ~> Terminated

\* A download that used its whole budget and returned: 3 HEADs, and 5 GETs
\* for each of two chunks.
C19_Witness ==
    /\ pc = "returned"
    /\ head_count = ProbeAttempts
    /\ Len(tasks) = 2
    /\ \A k \in 1..Len(tasks) : tasks[k].gets = ChunkAttempts

\* C20: sync_download_file called on a closed loop makes a new loop, drops
\* the cached session so that the download's session is one created on the
\* new loop, and calls run_until_complete a second time and no more; what
\* the second run raises is raised to the caller.  Called on a loop that
\* raises another RuntimeError, it raises that error after the one call.
C20_ClosedLoopRecovery ==
    /\ run_calls <= 2
    /\ call.state = "closed" =>
           /\ loop = [id |-> 2, state |-> "open"]
           /\ run_calls = 2
           /\ session = loop.id
           /\ sync_pc \in {"run2", "returned", "raised"}
           /\ sync_pc = "raised" => (pc = "raised" /\ sync_exc = error)
           /\ sync_pc = "returned" => pc = "returned"
    /\ call.state = "running" =>
           /\ sync_pc = "raised"
           /\ sync_exc = RuntimeError("This event loop is already running")
           /\ run_calls = 1
           /\ loop = [id |-> 1, state |-> "running"]
           /\ session = call.session
           /\ pc = "idle" /\ head_count = 0
    /\ call.state = "open" =>
           /\ run_calls = 1
           /\ loop = [id |-> 1, state |-> "open"]
           /\ session = Session(call.session, loop)

\* Called on a closed loop with a cached session, sync_download_file made a
\* new loop and a session on it, and raised the failure of its second run.
C20_Witness ==
    /\ call = [state |-> "closed", session |-> 1]
    /\ loop.id = 2
    /\ session = 2
    /\ sync_pc = "raised"
    /\ sync_exc = Exc("probe", 0)
    /\ head_count = ProbeAttempts
====
